---- MODULE Spec2Model ----
(***************************************************************************)
(* A model of src/code/Functions.py: the playlist search pipeline          *)
(* (search_playlists, get_playlist_details) and the batched genre          *)
(* resolver (get_track_genres).  The two functions are independent calls   *)
(* and are modelled as two state machines over disjoint variables:         *)
(* Spec runs search_playlists, SpecGenres runs get_track_genres.           *)
(*                                                                         *)
(* Strings whose characters matter (playlist names, the query, the         *)
(* time-of-day terms) are tuples of one-character strings, so that the     *)
(* regular-expression and substring tests are computed character by        *)
(* character.  A JSON object is a record with a field "keys" naming the    *)
(* keys that are present; the other fields give the values of those keys.  *)
(***************************************************************************)
EXTENDS Integers, Sequences, FiniteSets, TLC

VARIABLES
    \* ---- search_playlists ----
    query,              \* parameter query
    pc,                 \* position in search_playlists
    vi,                 \* index of search_query in search_variations (line 64)
    remaining,          \* items of the current search response not yet iterated
    playlist,           \* loop variable of line 80: the item evaluated last
    outcome,            \* what the loop body did with that item
    valid_playlists,    \* line 61
    seen_playlist_ids,  \* line 62
    sorted_playlists,   \* line 124
    playlist_ids,       \* line 132, the returned list
    detail_fetched,     \* history: ids get_playlist_details was called with
    failed_in_pass,     \* history: an earlier item of this pass failed
    \* ---- get_track_genres ----
    gpc,                \* position in get_track_genres
    playlist_tracks,    \* line 187
    artist_ids,         \* line 193
    i,                  \* loop variable of line 209
    batch,              \* line 210
    status,             \* response.status_code of the last bulk lookup
    genres,             \* line 192
    dispatched,         \* history: every bulk lookup issued, in order
    retry_after,        \* line 219: the duration of the last sleep
    all_ok,             \* history: every bulk lookup so far answered 200, no null
    returned            \* the value get_track_genres returned

svars == <<query, pc, vi, remaining, playlist, outcome, valid_playlists,
           seen_playlist_ids, sorted_playlists, playlist_ids, detail_fetched,
           failed_in_pass>>
gvars == <<gpc, playlist_tracks, artist_ids, i, batch, status, genres,
           dispatched, retry_after, all_ok, returned>>
vars == <<svars, gvars>>

(***************************************************************************)
(* Characters and strings                                                  *)
(***************************************************************************)
LowerLetters == {"a","b","c","d","e","f","g","h","i","j","k","l","m","n","o",
                 "p","q","r","s","t","u","v","w","x","y","z"}
UpperLetters == {"A","B","C","D","E","F","G","H","I","J","K","L","M","N","O",
                 "P","Q","R","S","T","U","V","W","X","Y","Z"}
Digits == {"0","1","2","3","4","5","6","7","8","9"}

\* str.lower() on one character
LowerChar(c) ==
    CASE c = "A" -> "a" [] c = "B" -> "b" [] c = "C" -> "c" [] c = "D" -> "d"
      [] c = "E" -> "e" [] c = "F" -> "f" [] c = "G" -> "g" [] c = "H" -> "h"
      [] c = "I" -> "i" [] c = "J" -> "j" [] c = "K" -> "k" [] c = "L" -> "l"
      [] c = "M" -> "m" [] c = "N" -> "n" [] c = "O" -> "o" [] c = "P" -> "p"
      [] c = "Q" -> "q" [] c = "R" -> "r" [] c = "S" -> "s" [] c = "T" -> "t"
      [] c = "U" -> "u" [] c = "V" -> "v" [] c = "W" -> "w" [] c = "X" -> "x"
      [] c = "Y" -> "y" [] c = "Z" -> "z" [] OTHER -> c

\* str.lower()
Lower(s) == [k \in 1..Len(s) |-> LowerChar(s[k])]

\* the regular expression class \w
IsWordChar(c) == c \in LowerLetters \cup UpperLetters \cup Digits \cup {"_"}

\* sub occurs in s starting at position p
OccursAt(sub, s, p) ==
    /\ p >= 1
    /\ p + Len(sub) - 1 <= Len(s)
    /\ \A k \in 1..Len(sub) : s[p + k - 1] = sub[k]

\* sub in s
Contains(sub, s) == \E p \in 1..Len(s) : OccursAt(sub, s, p)

\* WordMatch with a fault: the pattern without its \b anchors
WordMatchSubstring(term, name) == Contains(Lower(term), Lower(name))

\* re.search(rf'\b{term}\b', name, re.IGNORECASE): term is made of word
\* characters, so \b before it asks for the start of the name or a non-word
\* character, and \b after it for the end of the name or a non-word character
WordMatch(term, name) ==
    LET t == Lower(term)
        s == Lower(name)
    IN  \E p \in 1..Len(name) :
            /\ OccursAt(t, s, p)
            /\ (p = 1 \/ ~IsWordChar(name[p - 1]))
            /\ (p + Len(term) - 1 = Len(name)
                    \/ ~IsWordChar(name[p + Len(term)]))

Morning == <<"m","o","r","n","i","n","g">>
Afternoon == <<"a","f","t","e","r","n","o","o","n">>
Evening == <<"e","v","e","n","i","n","g">>
Night == <<"n","i","g","h","t">>
Setlist == <<"s","e","t","l","i","s","t">>

time_periods == <<Morning, Afternoon, Evening, Night>>

\* line 51
excluded_terms(q) ==
    {time_periods[k] : k \in {n \in 1..Len(time_periods) :
                                  Lower(time_periods[n]) # Lower(q)}}

\* lines 54-59
search_variations(q) ==
    << q \o <<" ","p","l","a","y","l","i","s","t">>,
       <<"*">> \o q \o <<"*">>,
       q \o <<" ","m","u","s","i","c">>,
       q \o <<" ","v","i","b","e","s">> >>

NumVariations == 4

\* defaults of the parameters min_tracks and min_followers
min_tracks == 10
min_followers == 50

(***************************************************************************)
(* The catalog: what the search endpoint and the detail endpoint may       *)
(* answer                                                                  *)
(***************************************************************************)
NightVibes == <<"N","i","g","h","t"," ","V","i","b","e","s">>
NightlifeGrooves == <<"N","i","g","h","t","l","i","f","e"," ","G","r","o","o","v","e","s">>
DeepFocus == <<"D","e","e","p"," ","F","o","c","u","s">>
MorningSetlist == <<"M","o","r","n","i","n","g"," ","S","e","t","l","i","s","t"," ","2","0","1","9">>
LateNightMix == <<"l","a","t","e","_","n","i","g","h","t"," ","m","i","x">>

AllKeys == {"id", "name", "owner", "tracks", "total"}

Item(keys, id, name, owner, total) ==
    [keys |-> keys, id |-> id, name |-> name, owner |-> owner, total |-> total]

\* None, or an empty object
NoItem == Item({}, "", <<>>, "", 0)

Catalog ==
    { NoItem,
      Item(AllKeys, "p1", NightVibes, "u1", 10),
      Item(AllKeys, "p2", NightlifeGrooves, "u1", 12),
      Item(AllKeys \ {"owner"}, "p3", DeepFocus, "", 10),
      Item(AllKeys, "p3", DeepFocus, "u2", 9),
      Item(AllKeys, "p4", LateNightMix, "u2", 30),
      Item(AllKeys, "p5", DeepFocus, "spotify", 50),
      Item(AllKeys, "p6", MorningSetlist, "u1", 20),
      Item(AllKeys \ {"name"}, "p2", <<>>, "u1", 12),
      Item(AllKeys \ {"tracks", "total"}, "p1", NightVibes, "u1", 0),
      Item(AllKeys \ {"total"}, "p2", NightlifeGrooves, "u1", 0),
      Item(AllKeys \ {"id"}, "", DeepFocus, "u2", 25) }

Queries == {Night, Morning}

\* the answers of GET /v1/playlists/{id}
Detail(st, keys, total) == [status |-> st, keys |-> keys, total |-> total]

FollowerCounts == {49, 50, 200}

DetailResponses ==
    { Detail(404, {}, 0), Detail(200, {}, 0), Detail(200, {"followers"}, 0) }
    \cup { Detail(200, {"followers", "total"}, f) : f \in FollowerCounts }

\* parameter limit: the most items one search response holds
Limit == 2

(***************************************************************************)
(* search_playlists                                                        *)
(***************************************************************************)
\* FilterOutcome with a fault: the track rule off by one
FilterOutcomeOffByOne(p, q) ==
    IF p.keys = {} THEN "skip_none"
    ELSE IF "name" \notin p.keys \/ "tracks" \notin p.keys THEN "skip_fields"
    ELSE IF "owner" \in p.keys /\ p.owner = "spotify" THEN "skip_owner"
    ELSE IF \E term \in excluded_terms(q) : WordMatch(term, p.name)
         THEN "skip_term"
    ELSE IF (IF "total" \in p.keys THEN p.total ELSE 0) < min_tracks - 1
         THEN "skip_tracks"
    ELSE IF Contains(Setlist, Lower(p.name)) THEN "skip_setlist"
    ELSE "candidate"

\* lines 83-104: the rules checked before the detail fetch, in order
FilterOutcome(p, q) ==
    IF p.keys = {} THEN "skip_none"
    ELSE IF "name" \notin p.keys \/ "tracks" \notin p.keys THEN "skip_fields"
    ELSE IF "owner" \in p.keys /\ p.owner = "spotify" THEN "skip_owner"
    ELSE IF \E term \in excluded_terms(q) : WordMatch(term, p.name)
         THEN "skip_term"
    ELSE IF (IF "total" \in p.keys THEN p.total ELSE 0) < min_tracks
         THEN "skip_tracks"
    ELSE IF Contains(Setlist, Lower(p.name)) THEN "skip_setlist"
    ELSE "candidate"

\* lines 135-153: None unless the status is 200
get_playlist_details(d) == IF d.status = 200 THEN d ELSE [d EXCEPT !.keys = {}]

\* lines 112-118 on the details d of a candidate
EnrichOutcome(d) ==
    LET details == get_playlist_details(d) IN
    IF "followers" \notin details.keys THEN "detail_failed"
    ELSE IF "total" \notin details.keys THEN "error_details"
    ELSE IF details.total < min_followers THEN "below_followers"
    ELSE "accepted"

\* the outcomes that follow a detail fetch
EnrichOutcomes == {"detail_failed", "error_details", "below_followers",
                   "accepted"}

\* an exception caught at line 120, or a failed detail fetch
Failures == {"error_id", "error_details", "detail_failed"}

\* FilterOutcome of every item the search may return, for every query
FilterTable == [q \in Queries |-> [p \in Catalog |-> FilterOutcome(p, q)]]

\* key of line 124
FollowersKey(p) == p.followers

\* InsertDesc with a fault: x goes in front of the elements with its own key
InsertDescTiesFirst(x, s) ==
    LET before == {k \in 1..Len(s) : FollowersKey(s[k]) > FollowersKey(x)}
        n == IF before = {} THEN 0
             ELSE CHOOSE k \in before : \A m \in before : m <= k
    IN  SubSeq(s, 1, n) \o <<x>> \o SubSeq(s, n + 1, Len(s))

\* insert x behind every element whose key is at least x's key
InsertDesc(x, s) ==
    LET before == {k \in 1..Len(s) : FollowersKey(s[k]) >= FollowersKey(x)}
        n == IF before = {} THEN 0
             ELSE CHOOSE k \in before : \A m \in before : m <= k
    IN  SubSeq(s, 1, n) \o <<x>> \o SubSeq(s, n + 1, Len(s))

RECURSIVE SortedDesc(_)
\* line 124: sorted(..., key=followers, reverse=True), which is stable
SortedDesc(s) ==
    IF s = <<>> THEN <<>>
    ELSE InsertDesc(s[Len(s)], SortedDesc(SubSeq(s, 1, Len(s) - 1)))

InitSearch ==
    /\ query \in Queries
    /\ pc = "search"
    /\ vi = 1
    /\ remaining = 0
    /\ playlist = NoItem
    /\ outcome = "none"
    /\ valid_playlists = <<>>
    /\ seen_playlist_ids = {}
    /\ sorted_playlists = <<>>
    /\ playlist_ids = <<>>
    /\ detail_fetched = {}
    /\ failed_in_pass = FALSE

GenresIdle ==
    /\ gpc = "idle"
    /\ playlist_tracks = <<>>
    /\ artist_ids = <<>>
    /\ i = 0
    /\ batch = <<>>
    /\ status = 0
    /\ genres = <<>>
    /\ dispatched = <<>>
    /\ retry_after = 0
    /\ all_ok = TRUE
    /\ returned = <<>>

\* lines 73-78: the search for variation vi answers with n items.  What the
\* items are is left open until the loop of line 80 reaches them: each pass
\* of the loop body draws its item from the catalog, so that a response is
\* any sequence of at most Limit catalog items
Search ==
    /\ pc = "search"
    /\ vi <= NumVariations
    /\ \E n \in 0..Limit :
           /\ remaining' = n
           /\ pc' = "items"
    /\ failed_in_pass' = FALSE
    /\ UNCHANGED <<query, vi, playlist, outcome, valid_playlists,
                   seen_playlist_ids, sorted_playlists, playlist_ids,
                   detail_fetched, gvars>>

\* line 77: the response has no playlists.items
SearchNoItems ==
    /\ pc = "search"
    /\ vi <= NumVariations
    /\ vi' = vi + 1
    /\ failed_in_pass' = FALSE
    /\ UNCHANGED <<query, pc, remaining, playlist, outcome, valid_playlists,
                   seen_playlist_ids, sorted_playlists, playlist_ids,
                   detail_fetched, gvars>>

\* line 74: raise_for_status propagates to the caller
SearchFails ==
    /\ pc = "search"
    /\ vi <= NumVariations
    /\ pc' = "raised"
    /\ UNCHANGED <<query, vi, remaining, playlist, outcome, valid_playlists,
                   seen_playlist_ids, sorted_playlists, playlist_ids,
                   detail_fetched, failed_in_pass, gvars>>

\* line 80: the loop over the items is exhausted
EndOfItems ==
    /\ pc = "items"
    /\ remaining = 0
    /\ vi' = vi + 1
    /\ pc' = "search"
    /\ UNCHANGED <<query, remaining, playlist, outcome, valid_playlists,
                   seen_playlist_ids, sorted_playlists, playlist_ids,
                   detail_fetched, failed_in_pass, gvars>>

\* NextItem with a fault: a failure is not caught and ends the call
NextItemAbort(p, o) ==
    /\ pc = "items"
    /\ remaining > 0
    /\ remaining' = remaining - 1
    /\ playlist' = p
    /\ outcome' = o
    /\ failed_in_pass' = (failed_in_pass \/ o \in Failures)
    /\ pc' = IF o \in Failures THEN "raised" ELSE pc
    /\ UNCHANGED <<query, vi, sorted_playlists, playlist_ids, gvars>>

\* what every pass of the loop body does to the loop's own state
NextItem(p, o) ==
    /\ pc = "items"
    /\ remaining > 0
    /\ remaining' = remaining - 1
    /\ playlist' = p
    /\ outcome' = o
    /\ failed_in_pass' = (failed_in_pass \/ o \in Failures)
    /\ UNCHANGED <<query, pc, vi, sorted_playlists, playlist_ids, gvars>>

\* lines 83-104: a rule rejects the item
SkipFiltered ==
    \E p \in Catalog :
        /\ FilterTable[query][p] # "candidate"
        /\ NextItem(p, FilterTable[query][p])
        /\ UNCHANGED <<valid_playlists, seen_playlist_ids, detail_fetched>>

\* lines 107, 120-121: playlist["id"] raises KeyError, which is caught
MissingId ==
    \E p \in Catalog :
        /\ FilterTable[query][p] = "candidate"
        /\ "id" \notin p.keys
        /\ NextItem(p, "error_id")
        /\ UNCHANGED <<valid_playlists, seen_playlist_ids, detail_fetched>>

\* IsDuplicate with a fault: the seen set is never consulted
IsDuplicateNever(p) == FALSE

\* line 108
IsDuplicate(p) == p.id \in seen_playlist_ids

\* lines 108-109
SkipDuplicate ==
    \E p \in Catalog :
        /\ FilterTable[query][p] = "candidate"
        /\ "id" \in p.keys
        /\ IsDuplicate(p)
        /\ NextItem(p, "skip_duplicate")
        /\ UNCHANGED <<valid_playlists, seen_playlist_ids, detail_fetched>>

\* Accept with a fault: the id is not added to the seen set
AcceptNoSeen(p, d) ==
    /\ valid_playlists' =
           Append(valid_playlists,
                  [id |-> p.id, name |-> p.name, total |-> p.total,
                   followers |-> d.total])
    /\ seen_playlist_ids' = seen_playlist_ids

\* lines 116-118
Accept(p, d) ==
    /\ valid_playlists' =
           Append(valid_playlists,
                  [id |-> p.id, name |-> p.name, total |-> p.total,
                   followers |-> d.total])
    /\ seen_playlist_ids' = seen_playlist_ids \cup {p.id}

\* lines 111-118: the detail fetch and what follows from it
Enrich ==
    \E p \in Catalog, d \in DetailResponses :
        /\ FilterTable[query][p] = "candidate"
        /\ "id" \in p.keys
        /\ ~IsDuplicate(p)
        /\ detail_fetched' = detail_fetched \cup {p.id}
        /\ NextItem(p, EnrichOutcome(d))
        /\ IF EnrichOutcome(d) = "accepted"
           THEN Accept(p, d)
           ELSE UNCHANGED <<valid_playlists, seen_playlist_ids>>

\* lines 124-133
SortAndReturn ==
    /\ pc = "search"
    /\ vi > NumVariations
    /\ sorted_playlists' = SortedDesc(valid_playlists)
    /\ playlist_ids' = [k \in 1..Len(valid_playlists) |->
                            SortedDesc(valid_playlists)[k].id]
    /\ pc' = "done"
    /\ UNCHANGED <<query, vi, remaining, playlist, outcome, valid_playlists,
                   seen_playlist_ids, detail_fetched, failed_in_pass, gvars>>

SearchIdle ==
    /\ query = <<>>
    /\ pc = "idle"
    /\ vi = 0
    /\ remaining = 0
    /\ playlist = NoItem
    /\ outcome = "none"
    /\ valid_playlists = <<>>
    /\ seen_playlist_ids = {}
    /\ sorted_playlists = <<>>
    /\ playlist_ids = <<>>
    /\ detail_fetched = {}
    /\ failed_in_pass = FALSE

Init == InitSearch /\ GenresIdle

Next ==
    \/ Search
    \/ SearchNoItems
    \/ SearchFails
    \/ EndOfItems
    \/ SkipFiltered
    \/ MissingId
    \/ SkipDuplicate
    \/ Enrich
    \/ SortAndReturn

Spec == Init /\ [][Next]_vars

(***************************************************************************)
(* Properties of search_playlists                                          *)
(***************************************************************************)
\* the step is one pass of the loop body of line 80
ItemStep == remaining' = remaining - 1

AcceptedIds == {valid_playlists[k].id : k \in 1..Len(valid_playlists)}

\* C2: every record of the accumulated valid list has tracks.total >=
\* min_tracks and followers.total >= min_followers, and every returned id
\* is the id of such a record
C2_ThresholdsHold ==
    /\ \A k \in 1..Len(valid_playlists) :
           /\ valid_playlists[k].total >= min_tracks
           /\ valid_playlists[k].followers >= min_followers
    /\ pc = "done" =>
           \A k \in 1..Len(playlist_ids) :
               \E j \in 1..Len(valid_playlists) :
                   /\ valid_playlists[j].id = playlist_ids[k]
                   /\ valid_playlists[j].total >= min_tracks
                   /\ valid_playlists[j].followers >= min_followers

\* a record on both boundaries (exactly min_tracks tracks, exactly
\* min_followers followers) is returned
C2_Witness ==
    /\ pc = "done"
    /\ \E j \in 1..Len(valid_playlists) :
           /\ valid_playlists[j].total = min_tracks
           /\ valid_playlists[j].followers = min_followers
           /\ \E k \in 1..Len(playlist_ids) :
                  playlist_ids[k] = valid_playlists[j].id

\* C3: no id is held twice in the valid list, and every accepted id appears
\* exactly once in the returned list
C3_NoDuplicateIds ==
    /\ \A j, k \in 1..Len(valid_playlists) :
           valid_playlists[j].id = valid_playlists[k].id => j = k
    /\ pc = "done" =>
           /\ \A j, k \in 1..Len(playlist_ids) :
                  playlist_ids[j] = playlist_ids[k] => j = k
           /\ \A id \in seen_playlist_ids :
                  Cardinality({k \in 1..Len(playlist_ids) :
                                   playlist_ids[k] = id}) = 1

\* the last item of the last pass is a candidate whose id was accepted
\* before, and the id is returned
C3_Witness ==
    /\ pc = "done"
    /\ outcome = "skip_duplicate"
    /\ \E k \in 1..Len(playlist_ids) : playlist_ids[k] = playlist.id

\* position of an accepted id in the valid list (ids are unique there)
PositionOf(id) ==
    CHOOSE k \in 1..Len(valid_playlists) : valid_playlists[k].id = id

\* C4: the returned list is the valid list ordered by followers descending,
\* records with equal followers keeping the order in which they were accepted
C4_StableDescending ==
    pc = "done" =>
        /\ Len(sorted_playlists) = Len(valid_playlists)
        /\ {sorted_playlists[k] : k \in 1..Len(sorted_playlists)}
               = {valid_playlists[k] : k \in 1..Len(valid_playlists)}
        /\ playlist_ids = [k \in 1..Len(sorted_playlists) |->
                               sorted_playlists[k].id]
        /\ \A a, b \in 1..Len(sorted_playlists) :
               a < b =>
                   \/ sorted_playlists[a].followers
                          > sorted_playlists[b].followers
                   \/ /\ sorted_playlists[a].followers
                             = sorted_playlists[b].followers
                      /\ PositionOf(sorted_playlists[a].id)
                             < PositionOf(sorted_playlists[b].id)

\* followers [50, 200, 50, 200] in acceptance order: the two 200 entries
\* come first in their original order, then the two 50 entries in theirs
C4_Witness ==
    /\ pc = "done"
    /\ Len(valid_playlists) = 4
    /\ [k \in 1..4 |-> valid_playlists[k].followers] = <<50, 200, 50, 200>>
    /\ playlist_ids = <<valid_playlists[2].id, valid_playlists[4].id,
                        valid_playlists[1].id, valid_playlists[3].id>>

\* C6 as claimed: a detail fetch is never issued for an id a detail fetch
\* was issued for before
C6_FetchedAtMostOnce ==
    [][(ItemStep /\ outcome' \in EnrichOutcomes)
           => playlist'.id \notin detail_fetched]_vars

\* C6 as amended: a detail fetch is never issued for an id that has been
\* accepted; an id whose earlier fetch did not lead to acceptance may be
\* fetched again
C6_AcceptedNotRefetched ==
    [][(ItemStep /\ outcome' \in EnrichOutcomes)
           => playlist'.id \notin AcceptedIds]_vars

\* the first item of a later pass carries an id accepted in an earlier
\* pass and is skipped without a detail fetch
C6_Witness ==
    /\ pc = "items"
    /\ vi >= 2
    /\ remaining = Limit - 1
    /\ outcome = "skip_duplicate"
    /\ playlist.id \in AcceptedIds
    /\ playlist.id \in detail_fetched

\* the item has the fields rules 1 to 3 ask for
PassesFirstRules(p) ==
    /\ "name" \in p.keys
    /\ "tracks" \in p.keys
    /\ ~("owner" \in p.keys /\ p.owner = "spotify")

\* C7 as claimed: with query "night", "Nightlife Grooves" is not rejected
\* by the time-of-day rule and "Night Vibes" is, so that it is never
\* accepted
C7_NightQueryExcludesNightVibes ==
    query = Night =>
        /\ (playlist.name = NightlifeGrooves => outcome # "skip_term")
        /\ ((playlist.name = NightVibes /\ PassesFirstRules(playlist))
               => outcome = "skip_term")
        /\ \A k \in 1..Len(valid_playlists) :
               valid_playlists[k].name # NightVibes

\* C7 as amended: "Nightlife Grooves" is never rejected by the time-of-day
\* rule; "Night Vibes" is rejected by it, and never accepted, when the query
\* is another time of day ("morning"), and is not rejected by it when the
\* query is "night" itself
C7_WholeWordExclusion ==
    /\ (playlist.name = NightlifeGrooves => outcome # "skip_term")
    /\ query = Morning =>
           /\ ((playlist.name = NightVibes /\ PassesFirstRules(playlist))
                  => outcome = "skip_term")
           /\ \A k \in 1..Len(valid_playlists) :
                  valid_playlists[k].name # NightVibes
    /\ query = Night =>
           (playlist.name = NightVibes => outcome # "skip_term")

\* with query "morning", "Nightlife Grooves" has been accepted and
\* "Night Vibes" has just been rejected by the time-of-day rule
C7_Witness ==
    /\ query = Morning
    /\ playlist.name = NightVibes
    /\ outcome = "skip_term"
    /\ \E k \in 1..Len(valid_playlists) :
           valid_playlists[k].name = NightlifeGrooves

\* C9: an item whose evaluation raises, or whose detail fetch fails, leaves
\* the valid list and the seen set as they were and the loop goes on with
\* the next item of the same pass; every accepted id is returned
C9_FailureSkipsOneRecord ==
    /\ [][(ItemStep /\ outcome' \in Failures)
              => /\ valid_playlists' = valid_playlists
                 /\ seen_playlist_ids' = seen_playlist_ids
                 /\ pc' = "items"
                 /\ vi' = vi]_vars
    /\ [](pc = "done" =>
              \A id \in AcceptedIds :
                  \E k \in 1..Len(playlist_ids) : playlist_ids[k] = id)

\* the last item of the last pass was accepted after an earlier item of the
\* same pass had failed, and its id is returned
C9_Witness ==
    /\ pc = "done"
    /\ failed_in_pass
    /\ outcome = "accepted"
    /\ \E k \in 1..Len(playlist_ids) : playlist_ids[k] = playlist.id

(***************************************************************************)
(* get_track_genres                                                        *)
(***************************************************************************)
\* line 209: the step of range, and the size of a slice (line 210)
BatchSize == 50
\* line 195
TrackCap == 200
\* line 219: the default of Retry-After
DefaultRetryAfter == 60

Min(a, b) == IF a <= b THEN a ELSE b

\* an artist of a track: keys names which of "id" and "name" are present
Artist(keys, id, name) == [keys |-> keys, id |-> id, name |-> name]
\* an item of the track list: keys = {} is an item whose track is None
TrackItem(keys, name, artists) ==
    [keys |-> keys, name |-> name, artists |-> artists]

ArtA == Artist({"id", "name"}, "A", "Ann")
ArtB == Artist({"id", "name"}, "B", "Bob")
ArtC == Artist({"id", "name"}, "C", "Cy")
\* an artist object with an empty id, and one with no id at all
ArtEmptyId == Artist({"id", "name"}, "", "Local")
ArtNoId == Artist({"name"}, "", "Anon")

TrackPool ==
    { TrackItem({}, "", <<>>),
      TrackItem({"track"}, "T1", <<ArtA, ArtB>>),
      TrackItem({"track"}, "T2", <<ArtA>>),
      TrackItem({"track"}, "T3", <<ArtEmptyId, ArtC, ArtNoId>>) }

\* the longest pattern of tracks a track list repeats
MaxPattern == 2
\* how often the pattern is repeated
Repeats == {1, 40, 101}

Patterns == UNION { [1..n -> TrackPool] : n \in 0..MaxPattern }

Repeat(pat, r) ==
    [k \in 1..(Len(pat) * r) |-> pat[((k - 1) % Len(pat)) + 1]]

\* the answers of GET /v1/playlists/{id}/tracks that carry a track list
TrackLists ==
    { [keys |-> {"items"}, items |-> Repeat(pat, r)] :
          pat \in Patterns, r \in Repeats }

\* the catalog's artists, as GET /v1/artists returns them; C has no genres
ArtistObject(id) ==
    CASE id = "A" -> [keys |-> {"id", "name", "genres"}, id |-> "A",
                      genres |-> <<"rock">>]
      [] id = "B" -> [keys |-> {"id", "name", "genres"}, id |-> "B",
                      genres |-> <<"jazz", "pop">>]
      [] OTHER    -> [keys |-> {"id", "name"}, id |-> id, genres |-> <<>>]

NullArtist == [keys |-> {}, id |-> "", genres |-> <<>>]

\* the ids the catalog may answer null for
NullableIds == {"B"}

\* the Retry-After header of a 429: absent (0 here) or a number of seconds
RetryAfterHeaders == {0, 5}

\* lines 201-205: the ArtistRefs of one item
TrackArtists(item) ==
    IF item.keys = {} THEN <<>>
    ELSE LET withId == SelectSeq(item.artists, LAMBDA a : "id" \in a.keys)
         IN  [k \in 1..Len(withId) |->
                  [name |-> withId[k].name, id |-> withId[k].id,
                   track |-> item.name]]

RECURSIVE Flatten(_, _, _)
\* the concatenation of seqs[lo], ..., seqs[hi]
Flatten(seqs, lo, hi) ==
    IF lo > hi THEN <<>>
    ELSE IF lo = hi THEN seqs[lo]
    ELSE LET mid == (lo + hi) \div 2
         IN  Flatten(seqs, lo, mid) \o Flatten(seqs, mid + 1, hi)

\* lines 195-206
ExtractArtists(items) ==
    LET n == Min(Len(items), TrackCap)
    IN  Flatten([k \in 1..n |-> TrackArtists(items[k])], 1, n)

\* BatchAt with a fault: the slice runs one entry too far
BatchAtOneMore(refs, start) ==
    SubSeq(refs, start + 1, Min(start + BatchSize + 1, Len(refs)))

\* line 210: artist_ids[i:i + 50]
BatchAt(refs, start) ==
    SubSeq(refs, start + 1, Min(start + BatchSize, Len(refs)))

\* line 211: the ids joined into the request
RequestIds(b) ==
    LET truthy == SelectSeq(b, LAMBDA a : a.id # "")
    IN  [k \in 1..Len(truthy) |-> truthy[k].id]

\* the artists of a 200 answer: in request order, null for the ids in nulls
ResponseData(ids, nulls) ==
    [k \in 1..Len(ids) |->
         IF ids[k] \in nulls THEN NullArtist ELSE ArtistObject(ids[k])]

\* the dictionary g after the assignments of w, in that order
Override(g, w) ==
    [t \in DOMAIN g \cup DOMAIN w |-> IF t \in DOMAIN w THEN w[t] ELSE g[t]]

\* lines 227-235 for one artist of the answer: what the inner loop assigns.
\* Every ArtistRef of the batch with the artist's id has its track set to the
\* artist's genres; a null artist assigns nothing
ArtistWrites(artist, b) ==
    LET artist_genres == IF "genres" \in artist.keys
                         THEN artist.genres ELSE <<>>
        tracks == IF artist.keys = {} THEN {}
                  ELSE {b[k].track :
                            k \in {n \in 1..Len(b) : b[n].id = artist.id}}
    IN  [t \in tracks |-> artist_genres]

RECURSIVE DataWritesFirstWins(_, _, _, _)
\* DataWrites with a fault: an earlier assignment to a track is kept
DataWritesFirstWins(data, b, lo, hi) ==
    IF lo > hi THEN <<>>
    ELSE IF lo = hi THEN ArtistWrites(data[lo], b)
    ELSE LET mid == (lo + hi) \div 2
         IN  Override(DataWritesFirstWins(data, b, mid + 1, hi),
                      DataWritesFirstWins(data, b, lo, mid))

RECURSIVE DataWrites(_, _, _, _)
\* lines 226-235: what artists lo..hi of the answer assign, one after the
\* other, a later assignment to a track replacing an earlier one
DataWrites(data, b, lo, hi) ==
    IF lo > hi THEN <<>>
    ELSE IF lo = hi THEN ArtistWrites(data[lo], b)
    ELSE LET mid == (lo + hi) \div 2
         IN  Override(DataWrites(data, b, lo, mid),
                      DataWrites(data, b, mid + 1, hi))

\* lines 225-235: genres after the answer data for batch b
AssignData(g, data, b) == Override(g, DataWrites(data, b, 1, Len(data)))

InitGenres ==
    /\ gpc = "start"
    /\ playlist_tracks \in TrackLists \cup {[keys |-> {}, items |-> <<>>]}
    /\ artist_ids = <<>>
    /\ i = 0
    /\ batch = <<>>
    /\ status = 0
    /\ genres = <<>>
    /\ dispatched = <<>>
    /\ retry_after = 0
    /\ all_ok = TRUE
    /\ returned = <<>>

\* line 171: raise_for_status propagates to the caller
TracksFetchFails ==
    /\ gpc = "start"
    /\ gpc' = "raised"
    /\ UNCHANGED <<playlist_tracks, artist_ids, i, batch, status, genres,
                   dispatched, retry_after, all_ok, returned, svars>>

\* lines 188-190
NoTracks ==
    /\ gpc = "start"
    /\ "items" \notin playlist_tracks.keys
    /\ returned' = <<>>
    /\ gpc' = "done"
    /\ UNCHANGED <<playlist_tracks, artist_ids, i, batch, status, genres,
                   dispatched, retry_after, all_ok, svars>>

\* lines 192-206
Extract ==
    /\ gpc = "start"
    /\ "items" \in playlist_tracks.keys
    /\ artist_ids' = ExtractArtists(playlist_tracks.items)
    /\ genres' = <<>>
    /\ i' = 0
    /\ gpc' = "loop"
    /\ UNCHANGED <<playlist_tracks, batch, status, dispatched, retry_after,
                   all_ok, returned, svars>>

\* lines 209-216: the next pass of the loop issues the lookup of its batch
Dispatch ==
    /\ gpc = "loop"
    /\ i < Len(artist_ids)
    /\ batch' = BatchAt(artist_ids, i)
    /\ dispatched' = Append(dispatched,
                            [start |-> i, size |-> Len(BatchAt(artist_ids, i)),
                             ids |-> RequestIds(BatchAt(artist_ids, i))])
    /\ gpc' = "await"
    /\ UNCHANGED <<playlist_tracks, artist_ids, i, status, genres,
                   retry_after, all_ok, returned, svars>>

\* RateLimited with a fault: after the sleep the same batch is looked up again
RateLimitedRetry ==
    /\ gpc = "await"
    /\ status' = 429
    /\ \E h \in RetryAfterHeaders :
           retry_after' = IF h = 0 THEN DefaultRetryAfter ELSE h
    /\ i' = i
    /\ all_ok' = FALSE
    /\ gpc' = "loop"
    /\ UNCHANGED <<playlist_tracks, artist_ids, batch, genres, dispatched,
                   returned, svars>>

\* lines 218-222: the sleep, then continue, which moves the loop on
RateLimited ==
    /\ gpc = "await"
    /\ status' = 429
    /\ \E h \in RetryAfterHeaders :
           retry_after' = IF h = 0 THEN DefaultRetryAfter ELSE h
    /\ i' = i + BatchSize
    /\ all_ok' = FALSE
    /\ gpc' = "loop"
    /\ UNCHANGED <<playlist_tracks, artist_ids, batch, genres, dispatched,
                   returned, svars>>

\* lines 224-235
Resolved ==
    /\ gpc = "await"
    /\ status' = 200
    /\ \E nulls \in SUBSET NullableIds :
           /\ genres' = AssignData(genres,
                                   ResponseData(RequestIds(batch), nulls),
                                   batch)
           /\ all_ok' = (all_ok /\ \A k \in 1..Len(batch) :
                                       batch[k].id \notin nulls)
    /\ i' = i + BatchSize
    /\ gpc' = "loop"
    /\ UNCHANGED <<playlist_tracks, artist_ids, batch, dispatched,
                   retry_after, returned, svars>>

\* a status that is neither 429 nor 200 falls through both tests
OtherStatus ==
    /\ gpc = "await"
    /\ status' = 500
    /\ i' = i + BatchSize
    /\ all_ok' = FALSE
    /\ gpc' = "loop"
    /\ UNCHANGED <<playlist_tracks, artist_ids, batch, genres, dispatched,
                   retry_after, returned, svars>>

\* line 237, once range(0, len(artist_ids), 50) is exhausted
Return ==
    /\ gpc = "loop"
    /\ i >= Len(artist_ids)
    /\ returned' = genres
    /\ gpc' = "done"
    /\ UNCHANGED <<playlist_tracks, artist_ids, i, batch, status, genres,
                   dispatched, retry_after, all_ok, svars>>

NextGenres ==
    \/ TracksFetchFails
    \/ NoTracks
    \/ Extract
    \/ Dispatch
    \/ RateLimited
    \/ Resolved
    \/ OtherStatus
    \/ Return

InitG == InitGenres /\ SearchIdle

SpecGenres == InitG /\ [][NextGenres]_vars

\* the calls are synchronous: the function runs on until it returns or raises
FairSpecGenres == SpecGenres /\ WF_vars(NextGenres)

(***************************************************************************)
(* Properties of get_track_genres                                          *)
(***************************************************************************)
\* C1: when the last bulk lookup was answered 429, the next thing the
\* resolver does is to issue the lookup of the same batch again (it neither
\* returns nor dispatches another batch)
C1_RateLimitedBatchIsRetried ==
    [][(gpc = "loop" /\ status = 429 /\ gpc' # gpc)
           => /\ gpc' = "await"
              /\ dispatched'[Len(dispatched')].start
                     = dispatched[Len(dispatched)].start]_vars

\* ceil(n / 50)
NumBatches(n) == (n + BatchSize - 1) \div BatchSize

\* C5: the lookups issued so far are the consecutive slices of artist_ids of
\* 50 entries each (the last one of a finished run may be shorter), each
\* ArtistRef in exactly one of them, none carrying more than 50 ids; a
\* finished run has issued ceil(n / 50) of them, covering artist_ids
C5_ConsecutiveBatches ==
    /\ \A k \in 1..Len(dispatched) :
           /\ dispatched[k].size \in 1..50
           /\ Len(dispatched[k].ids) <= 50
           /\ dispatched[k].start = 50 * (k - 1)
           /\ dispatched[k].start + dispatched[k].size <= Len(artist_ids)
           /\ k < Len(dispatched) => dispatched[k].size = 50
           /\ dispatched[k].ids =
                  RequestIds(SubSeq(artist_ids, dispatched[k].start + 1,
                                    dispatched[k].start + dispatched[k].size))
    /\ gpc = "await" =>
           LET d == dispatched[Len(dispatched)]
           IN  batch = SubSeq(artist_ids, d.start + 1, d.start + d.size)
    /\ gpc = "done" =>
           /\ Len(dispatched) = NumBatches(Len(artist_ids))
           /\ dispatched # <<>> =>
                  LET d == dispatched[Len(dispatched)]
                  IN  d.start + d.size = Len(artist_ids)

\* 120 ArtistRefs were looked up in three calls of 50, 50 and 20
C5_Witness ==
    /\ gpc = "done"
    /\ Len(artist_ids) = 120
    /\ [k \in 1..Len(dispatched) |-> dispatched[k].size] = <<50, 50, 20>>

\* the genre list the catalog holds for an artist id
GenresOfId(id) ==
    IF "genres" \in ArtistObject(id).keys THEN ArtistObject(id).genres
    ELSE <<>>

\* the positions of artist_ids that carry a request id and belong to track t
RefsOfTrack(t) ==
    {k \in 1..Len(artist_ids) :
         artist_ids[k].track = t /\ artist_ids[k].id # ""}

ResolvedTracks == {artist_ids[k].track :
                       k \in {n \in 1..Len(artist_ids) : artist_ids[n].id # ""}}

\* the positions of artist_ids that make up the k-th batch
BatchRange(k) ==
    (50 * (k - 1) + 1) .. Min(50 * k, Len(artist_ids))

\* the last batch that holds an ArtistRef of track t
LastBatchOf(t) ==
    LET bs == {k \in 1..NumBatches(Len(artist_ids)) :
                   BatchRange(k) \cap RefsOfTrack(t) # {}}
    IN  CHOOSE k \in bs : \A m \in bs : m <= k

\* the last ArtistRef of track t
LastRefOf(t) ==
    LET ks == BatchRange(LastBatchOf(t)) \cap RefsOfTrack(t)
    IN  CHOOSE k \in ks : \A m \in ks : m <= k

\* the ids of the artists of track t in its last batch
IdsInLastBatch(t) ==
    {artist_ids[k].id : k \in BatchRange(LastBatchOf(t)) \cap RefsOfTrack(t)}

\* the last position of the track's last batch whose id is the id of one of
\* the track's artists in that batch
LastOccurrence(t) ==
    LET ks == {k \in BatchRange(LastBatchOf(t)) :
                   artist_ids[k].id \in IdsInLastBatch(t)}
    IN  CHOOSE k \in ks : \A m \in ks : m <= k

\* C8 as claimed: when every lookup answered 200 with no null artist, the
\* entry of each track name is the genre list of the last ArtistRef of that
\* track name
C8_LastArtistWins ==
    (gpc = "done" /\ all_ok /\ "items" \in playlist_tracks.keys) =>
        \A t \in ResolvedTracks :
            /\ t \in DOMAIN returned
            /\ returned[t] = GenresOfId(artist_ids[LastRefOf(t)].id)

\* C8 as amended: when every lookup answered 200 with no null artist, the
\* entry of each track name is the genre list of that one of the track's
\* artists (of the last batch holding one) whose id occurs last anywhere in
\* that batch; it is the last ArtistRef's whenever no other of the track's
\* artists occurs in the batch behind the last ArtistRef
C8_LastOccurrenceWins ==
    (gpc = "done" /\ all_ok /\ "items" \in playlist_tracks.keys) =>
        /\ DOMAIN returned = ResolvedTracks
        /\ \A t \in ResolvedTracks :
               /\ returned[t] = GenresOfId(artist_ids[LastOccurrence(t)].id)
               /\ (\A k \in BatchRange(LastBatchOf(t)) :
                       (k > LastRefOf(t)
                            /\ artist_ids[k].id \in IdsInLastBatch(t))
                           => artist_ids[k].id = artist_ids[LastRefOf(t)].id)
                      => returned[t]
                             = GenresOfId(artist_ids[LastRefOf(t)].id)

\* track T1 has the artists A and B, in that order, and A is also the
\* artist of a later track of the same batch: T1 ends with A's genres
C8_Witness ==
    /\ gpc = "done"
    /\ all_ok
    /\ Len(dispatched) >= 2
    /\ "T1" \in DOMAIN returned
    /\ artist_ids[LastRefOf("T1")].id = "B"
    /\ returned["T1"] = GenresOfId("A")

====
